---------------------------- MODULE Spec2Model ----------------------------
(***************************************************************************)
(* Model of the "API Web Proyecto v0.3" backend (sergium-tg/test03):       *)
(* the customer repository (ClienteService), the token service and         *)
(* credential store (AuthService), and the request pipeline built by       *)
(* app/main.py and the routers (FastAPI dependencies, slowapi decorators). *)
(*                                                                         *)
(* Conventions                                                             *)
(*   - a Python str is a sequence of one-character strings;                *)
(*   - an Optional value is a set with at most one element: None is {},    *)
(*     a present value v is {v};                                           *)
(*   - a table is the set of its rows; the key and unique constraints of   *)
(*     app/models/models.py are enforced where rows are written            *)
(*     (INSERT, UPDATE), as the database enforces them at commit;          *)
(*   - every request is served on a Session of its own (Depends(get_db)).  *)
(*     A service function is a program of database statements: the model   *)
(*     gives each function as the operator that executes the NEXT          *)
(*     statement of a call, so that the statements of two sessions         *)
(*     interleave.  SQLite runs a SELECT outside any transaction of the    *)
(*     session: each statement sees the rows committed by then.            *)
(***************************************************************************)
EXTENDS Integers, Sequences, FiniteSets, TLC

VARIABLES
    clientes,   \* table "clientes": set of rows
    ordenes,    \* table "ordenes": set of rows
    users,      \* table "users": set of rows
    now,        \* the wall clock, in minutes (datetime.utcnow())
    hits,       \* slowapi's counters: (path, key) -> [n hits, window expires at]
    steps,      \* number of requests received (bounds the exploration)
    issued,     \* history: the tokens create_access_token has handed out
    res         \* per session, the call in progress: its arguments, what it
                \* has read, the tables before it, and its outcome;
                \* [op |-> "idle"] between calls

vars == <<clientes, ordenes, users, now, hits, steps, issued, res>>

None == {}
Some(v) == {v}
\* The value of a present Optional.
The(o) == CHOOSE v \in o : TRUE

Idle == [op |-> "idle"]

\* The sessions that may be open at once (one per request being served).
Procs == {"a", "b"}

\* The three tables as one value.
DB == [clientes |-> clientes, ordenes |-> ordenes, users |-> users]

\* A call of a service function as it starts: op names the function, pc the
\* statement it will execute next, arg its arguments; found and seen are what
\* its SELECTs have loaded, ret / exc the value returned or the exception
\* that left it, log the tables and primitives it has touched, pre the
\* tables when it started, http the request it serves (None for a direct
\* call).
Call(op, pc, arg, db, http) ==
    [op |-> op, pc |-> pc, arg |-> arg, found |-> None, seen |-> None,
     ret |-> None, exc |-> "", log |-> <<>>, pre |-> db, http |-> http]

\* The call returns value v / is left by exception e.
Returns(c, v) == [c EXCEPT !.pc = "done", !.ret = v]
Raises(c, e) == [c EXCEPT !.pc = "done", !.exc = e]

(***************************************************************************)
(* Bounds of the exploration.                                              *)
(***************************************************************************)
\* Document ids a caller may supply: MIN_ID .. MIN_ID + NumIds - 1.
NumIds == 2
\* Rows the external order subsystem inserts.
MaxOrdenes == 1
\* Fields one PUT body supplies.
MaxCampos == 2

(***************************************************************************)
(* app/schemas/schemas.py: the validated request bodies.                   *)
(***************************************************************************)
MIN_ID == 100000
\* contacto: int = Field(ge=300000000, le=9999999999).  The values reach
\* beyond 32-bit integers, so a contacto is kept as its decimal numeral.
MIN_CONTACTO == <<"3", "0", "0", "0", "0", "0", "0", "0", "0">>

Ids == MIN_ID .. (MIN_ID + NumIds - 1)

\* Sample field values (every one passes the schema's validation).
Nombres == { <<"A", "n", "a">>, <<"J", "u", "a", "n">> }
Apellidos == { <<"D", "u", "r", "a", "n">> }
Emails == { <<"a", "@", "m", ".", "c">>, <<"j", "@", "m", ".", "c">> }
Contactos == { MIN_CONTACTO }
Direcciones == { <<"A", "v", " ", "1">> }

\* ClienteCreate: every field required except direccion (Optional, default None).
ClienteCreate ==
    [ id : Ids, nombre : Nombres, apellido : Apellidos, email : Emails,
      contacto : Contactos, direccion : {None} \cup {Some(d) : d \in Direcciones} ]

Campos == {"nombre", "apellido", "email", "contacto", "direccion"}

\* The values a PUT body may give a field: every one is Optional, so an explicit
\* null passes validation.
ValoresDe(f) ==
    {None} \cup
    { Some(v) : v \in CASE f = "nombre" -> Nombres
                        [] f = "apellido" -> Apellidos
                        [] f = "email" -> Emails
                        [] f = "contacto" -> Contactos
                        [] OTHER -> Direcciones }

\* The bodies that supply exactly the fields S.
RECURSIVE Bodies(_)
Bodies(S) ==
    IF S = {} THEN { <<>> }
    ELSE LET f == CHOOSE x \in S : TRUE
         IN { (f :> v) @@ b : v \in ValoresDe(f), b \in Bodies(S \ {f}) }

\* ClienteUpdate after model_dump(exclude_unset=True): the supplied fields only.
ClienteUpdate ==
    UNION { Bodies(S) : S \in {T \in SUBSET Campos : Cardinality(T) <= MaxCampos} }

(***************************************************************************)
(* app/models/models.py: the tables and their constraints, as the          *)
(* statements a commit sends meet them.  Foreign keys are declared but     *)
(* SQLite does not enforce them unless PRAGMA foreign_keys is set, which   *)
(* nothing in the sources does.                                            *)
(***************************************************************************)
\* Columns declared nullable=False.
NotNullColumns == {"nombre", "apellido", "email", "contacto"}

\* The row a Cliente(**model_dump()) object is stored as.
Fila(d) ==
    [ id |-> d.id, nombre |-> d.nombre, apellido |-> d.apellido,
      email |-> d.email, contacto |-> d.contacto, direccion |-> d.direccion ]

\* An INSERT into a table that declares neither the primary key nor the
\* unique index.
INSERT_sin_restricciones(db, fila) ==
    [db |-> db \cup {fila}, exc |-> ""]

\* INSERT INTO clientes at commit: the primary key (id) and the unique index
\* (email) reject a row that collides with a stored one.
INSERT(db, fila) ==
    IF \E c \in db : c.id = fila.id \/ c.email = fila.email
    THEN [db |-> db, exc |-> "IntegrityError"]
    ELSE [db |-> db \cup {fila}, exc |-> ""]

\* The attributes setattr left different from the values loaded: the columns
\* the flush puts in the UPDATE.
Changed(viejo, set) ==
    { f \in DOMAIN set :
        IF f = "direccion" THEN set[f] # viejo[f] ELSE set[f] # Some(viejo[f]) }

\* UPDATE clientes SET <changed columns> WHERE id = viejo.id at commit, viejo
\* being the row as the session loaded it.  No statement is sent when no
\* attribute changed.  A row that is no longer stored matches nothing
\* (StaleDataError); NOT NULL columns reject a null, the unique index
\* rejects an email another row holds.  The columns not set keep the values
\* stored by then.
UPDATE(db, viejo, set) ==
    LET cols == Changed(viejo, set)
    IN IF cols = {} THEN [db |-> db, exc |-> ""]
       ELSE IF \A c \in db : c.id # viejo.id
       THEN [db |-> db, exc |-> "StaleDataError"]
       ELSE IF \/ \E f \in cols : f \in NotNullColumns /\ set[f] = None
               \/ /\ "email" \in cols
                  /\ \E c \in db : c.id # viejo.id /\ Some(c.email) = set["email"]
       THEN [db |-> db, exc |-> "IntegrityError"]
       ELSE LET actual == CHOOSE c \in db : c.id = viejo.id
                nuevo ==
                  [ f \in DOMAIN actual |->
                      IF f \notin cols THEN actual[f]
                      ELSE IF f = "direccion" THEN set[f]
                      ELSE The(set[f]) ]
            IN [db |-> (db \ {actual}) \cup {nuevo}, exc |-> ""]

\* The Cliente.ordenes relationship: the orders whose foreign key is the customer.
OrdenesDe(ords, cliente) == {o \in ords : o.id_cliente = cliente.id}

\* db.delete(cliente) at commit: cascade="all, delete-orphan" deletes the
\* orders of the collection the session has loaded, then DELETE FROM clientes
\* WHERE id = cliente.id (a row already gone only draws a warning).
DELETE(db, cliente, loaded) ==
    [db EXCEPT !.clientes = { c \in @ : c.id # cliente.id },
               !.ordenes = @ \ loaded]

(***************************************************************************)
(* app/services/cliente_service.py.  create_cliente, update_cliente and    *)
(* delete_cliente take the tables db and a call c and execute the          *)
(* statement c.pc names; they give the tables and the call afterwards.     *)
(***************************************************************************)
Logged(c, events) == [c EXCEPT !.log = @ \o events]

\* db.query(Cliente).filter(Cliente.id == cliente_id).first()
get_cliente_by_id(db, cliente_id) ==
    IF \E c \in db : c.id = cliente_id
    THEN Some(CHOOSE c \in db : c.id = cliente_id)
    ELSE None

\* db.query(Cliente).all(): the rows as SQLite scans the table, by its integer
\* primary key.
RECURSIVE get_all_clientes(_)
get_all_clientes(db) ==
    IF db = {} THEN <<>>
    ELSE LET first == CHOOSE c \in db : \A x \in db : c.id <= x.id
         IN <<first>> \o get_all_clientes(db \ {first})

\* db.refresh(cliente): the row is read back by its primary key; a row that
\* is no longer stored cannot be refreshed.
refresh(c, db, cliente_id) ==
    LET row == get_cliente_by_id(db, cliente_id)
    IN IF row = None THEN Raises(Logged(c, <<"clientes.read">>), "InvalidRequestError")
       ELSE Returns(Logged(c, <<"clientes.read">>), row)

\* A look-up that forgets the email: or_(...) reduced to the id.
create_cliente_existing_solo_id(db, cliente_data) ==
    IF \E c \in db : c.id = cliente_data.id
    THEN Some(CHOOSE c \in db : c.id = cliente_data.id)
    ELSE None

\* existing = db.query(Cliente).filter(or_(Cliente.id == cliente_data.id,
\*                                        Cliente.email == cliente_data.email)).first()
\* When one row has the id and another the email, the first row SQLite
\* returns is the one found by the primary key.
create_cliente_existing(db, cliente_data) ==
    IF \E c \in db : c.id = cliente_data.id
    THEN Some(CHOOSE c \in db : c.id = cliente_data.id)
    ELSE IF \E c \in db : c.email = cliente_data.email
    THEN Some(CHOOSE c \in db : c.email = cliente_data.email)
    ELSE None

\* A create that neither looks for an existing row nor meets a constraint.
create_cliente_sin_verificar(db, c) ==
    IF c.pc = "refresh" THEN [db |-> db, c |-> refresh(c, db.clientes, c.arg.data.id)]
    ELSE [db |-> [db EXCEPT !.clientes = @ \cup {Fila(c.arg.data)}],
          c |-> [Logged(c, <<"clientes.write">>) EXCEPT !.pc = "refresh"]]

\* create_cliente(db, cliente_data), statement by statement:
\*   "existing"  the look-up, and "return None" when it finds a row;
\*   "commit"    db.add(cliente); db.commit();
\*   "refresh"   db.refresh(cliente); return cliente.
create_cliente(db, c) ==
    LET cliente_data == c.arg.data
    IN CASE c.pc = "existing" ->
              LET existing == create_cliente_existing(db.clientes, cliente_data)
                  c1 == [Logged(c, <<"clientes.read">>) EXCEPT !.found = existing]
              IN [db |-> db,
                  c |-> IF existing # None THEN Returns(c1, None)
                        ELSE [c1 EXCEPT !.pc = "commit"]]
         [] c.pc = "commit" ->
              LET w == INSERT(db.clientes, Fila(cliente_data))
                  c1 == Logged(c, <<"clientes.write">>)
              IN IF w.exc # "" THEN [db |-> db, c |-> Raises(c1, w.exc)]
                 ELSE [db |-> [db EXCEPT !.clientes = w.db],
                       c |-> [c1 EXCEPT !.pc = "refresh"]]
         [] c.pc = "refresh" ->
              [db |-> db, c |-> refresh(c, db.clientes, cliente_data.id)]

\* model_dump() without exclude_unset: every field, the unset ones at their
\* default None.
model_dump_all(body) ==
    [ f \in Campos |-> IF f \in DOMAIN body THEN body[f] ELSE None ]

\* cliente_data.model_dump(exclude_unset=True) of the ClienteUpdate parsed from
\* the request body: the fields the body supplied, with their values.
model_dump_exclude_unset(body) ==
    [ f \in DOMAIN body |-> body[f] ]

\* The guard of "raise ValueError": the email is supplied, differs from the
\* customer's own, and a row with another id holds it.
email_tomado(db, cliente, cliente_id, update_data) ==
    /\ "email" \in DOMAIN update_data
    /\ update_data["email"] # Some(cliente.email)
    /\ \E c \in db : Some(c.email) = update_data["email"] /\ c.id # cliente_id

\* update_cliente(db, cliente_id, cliente_data), statement by statement:
\*   "cliente"         the look-up; "return None" when absent, "return
\*                     cliente" when the body supplies nothing;
\*   "existing_email"  the query of lines 54-57, run only when the body's
\*                     email differs from the loaded one; raise ValueError;
\*   "commit"          the setattr loop; db.commit();
\*   "refresh"         db.refresh(cliente); return cliente.
update_cliente(db, c) ==
    LET cliente_id == c.arg.cliente_id
        update_data == model_dump_exclude_unset(c.arg.data)
    IN CASE c.pc = "cliente" ->
              LET cliente == get_cliente_by_id(db.clientes, cliente_id)
                  c1 == [Logged(c, <<"clientes.read">>) EXCEPT !.found = cliente]
              IN [db |-> db,
                  c |-> IF cliente = None THEN Returns(c1, None)
                        ELSE IF DOMAIN update_data = {} THEN Returns(c1, cliente)
                        ELSE IF /\ "email" \in DOMAIN update_data
                                /\ update_data["email"] # Some(The(cliente).email)
                        THEN [c1 EXCEPT !.pc = "existing_email"]
                        ELSE [c1 EXCEPT !.pc = "commit"]]
         [] c.pc = "existing_email" ->
              LET c1 == Logged(c, <<"clientes.read">>)
              IN [db |-> db,
                  c |-> IF email_tomado(db.clientes, The(c.found), cliente_id,
                                        update_data)
                        THEN Raises(c1, "ValueError")
                        ELSE [c1 EXCEPT !.pc = "commit"]]
         [] c.pc = "commit" ->
              LET w == UPDATE(db.clientes, The(c.found), update_data)
                  c1 == IF Changed(The(c.found), update_data) = {} THEN c
                        ELSE Logged(c, <<"clientes.write">>)
              IN IF w.exc # "" THEN [db |-> db, c |-> Raises(c1, w.exc)]
                 ELSE [db |-> [db EXCEPT !.clientes = w.db],
                       c |-> [c1 EXCEPT !.pc = "refresh"]]
         [] c.pc = "refresh" ->
              [db |-> db, c |-> refresh(c, db.clientes, cliente_id)]

\* A delete without the referential guard: the relationship's
\* cascade="all, delete-orphan" then removes the customer's orders with it.
delete_cliente_en_cascada(db, c) ==
    CASE c.pc = "cliente" ->
           LET cliente == get_cliente_by_id(db.clientes, c.arg.cliente_id)
               c1 == [Logged(c, <<"clientes.read">>) EXCEPT !.found = cliente]
           IN [db |-> db,
               c |-> IF cliente = None THEN Returns(c1, None)
                     ELSE [c1 EXCEPT !.pc = "ordenes"]]
      [] c.pc = "ordenes" ->
           [db |-> db,
            c |-> [Logged(c, <<"ordenes.read">>) EXCEPT
                      !.seen = OrdenesDe(db.ordenes, The(c.found)),
                      !.pc = "commit"]]
      [] c.pc = "commit" ->
           [db |-> DELETE(db, The(c.found), c.seen),
            c |-> Returns(Logged(c, <<"clientes.write">>), Some(TRUE))]

\* delete_cliente(db, cliente_id), statement by statement; ret is the Python
\* value returned, None, False or True:
\*   "cliente"  the look-up; "return None" when absent;
\*   "ordenes"  cliente.ordenes (the lazy load of the relationship);
\*              "return False" when it holds an order;
\*   "commit"   db.delete(cliente); db.commit(); return True.
delete_cliente(db, c) ==
    CASE c.pc = "cliente" ->
           LET cliente == get_cliente_by_id(db.clientes, c.arg.cliente_id)
               c1 == [Logged(c, <<"clientes.read">>) EXCEPT !.found = cliente]
           IN [db |-> db,
               c |-> IF cliente = None THEN Returns(c1, None)
                     ELSE [c1 EXCEPT !.pc = "ordenes"]]
      [] c.pc = "ordenes" ->
           LET loaded == OrdenesDe(db.ordenes, The(c.found))
               c1 == [Logged(c, <<"ordenes.read">>) EXCEPT !.seen = loaded]
           IN [db |-> db,
               c |-> IF loaded # {} THEN Returns(c1, Some(FALSE))
                     ELSE [c1 EXCEPT !.pc = "commit"]]
      [] c.pc = "commit" ->
           [db |-> DELETE(db, The(c.found), c.seen),
            c |-> Returns(Logged(c, <<"clientes.write">>), Some(TRUE))]

(***************************************************************************)
(* The sessions.  An action of session p starts a call of its function     *)
(* (when p is idle) and executes its first statement, or executes the next *)
(* statement of the call p has in progress.                                *)
(***************************************************************************)
\* The statements of each service function.
Sentencias(op) ==
    CASE op = "create_cliente" -> {"existing", "commit", "refresh"}
      [] op = "update_cliente" -> {"cliente", "existing_email", "commit", "refresh"}
      [] op = "delete_cliente" -> {"cliente", "ordenes", "commit"}
      [] op = "get_cliente_by_id" -> {"cliente"}
      [] op = "get_all_clientes" -> {"all"}
      [] op = "search_and_sort_clientes" -> {"count", "page"}
      [] op = "create_user" -> {"existing_user", "commit", "refresh"}
      [] op = "authenticate_user" -> {"user"}
      [] OTHER -> {}

\* The calls of op session p may take a statement of: one of nuevas, started
\* now, when p is idle; the call in progress when it is a call of op.
Pendientes(p, op, nuevas) ==
    IF res[p] = Idle THEN nuevas
    ELSE IF res[p].op = op /\ res[p].pc \in Sentencias(op) THEN {res[p]}
    ELSE {}

\* Session p is left with call c and the tables with s.
Deja(p, s) ==
    /\ clientes' = s.db.clientes
    /\ ordenes' = s.db.ordenes
    /\ users' = s.db.users
    /\ res' = [res EXCEPT ![p] = s.c]

Init ==
    /\ clientes = {}
    /\ ordenes = {}
    /\ users = {}
    /\ now = 0
    /\ hits = <<>>
    /\ steps = 0
    /\ issued = {}
    /\ res = [p \in Procs |-> Idle]

Create(p, datos) ==
    /\ \E c \in Pendientes(p, "create_cliente",
                    { Call("create_cliente", "existing", [data |-> d], DB, None)
                      : d \in datos }) :
         Deja(p, create_cliente(DB, c))
    /\ UNCHANGED <<now, hits, steps, issued>>

Update(p, ids, bodies) ==
    /\ \E c \in Pendientes(p, "update_cliente",
                    { Call("update_cliente", "cliente",
                           [cliente_id |-> i, data |-> u], DB, None)
                      : i \in ids, u \in bodies }) :
         Deja(p, update_cliente(DB, c))
    /\ UNCHANGED <<now, hits, steps, issued>>

Delete(p, ids) ==
    /\ \E c \in Pendientes(p, "delete_cliente",
                    { Call("delete_cliente", "cliente", [cliente_id |-> i],
                           DB, None) : i \in ids }) :
         Deja(p, delete_cliente(DB, c))
    /\ UNCHANGED <<now, hits, steps, issued>>

GetById(p, ids) ==
    /\ \E c \in Pendientes(p, "get_cliente_by_id",
                    { Call("get_cliente_by_id", "cliente", [cliente_id |-> i],
                           DB, None) : i \in ids }) :
         Deja(p, [db |-> DB,
                  c |-> Returns(Logged(c, <<"clientes.read">>),
                                get_cliente_by_id(clientes, c.arg.cliente_id))])
    /\ UNCHANGED <<now, hits, steps, issued>>

\* The order subsystem (outside this service) stores an order of a customer
\* on a connection of its own: consecutivo is the generated key, id_cliente
\* the foreign key.
InsertOrden ==
    /\ Cardinality(ordenes) < MaxOrdenes
    /\ \E c \in clientes :
         ordenes' = ordenes \cup
            { [consecutivo |-> Cardinality(ordenes) + 1, tipo |-> <<"A">>,
               id_cliente |-> c.id] }
    /\ UNCHANGED <<clientes, users, now, hits, steps, issued, res>>

\* The caller of a direct call takes the result, or the client of a request
\* its answer; the session is closed.
Return(p) ==
    /\ res[p] # Idle
    /\ res[p].pc = "done"
    /\ res[p].http # None => The(res[p].http).client # 0
    /\ res' = [res EXCEPT ![p] = Idle]
    /\ UNCHANGED <<clientes, ordenes, users, now, hits, steps, issued>>

(***************************************************************************)
(* Spec: calls of the customer repository made one after the other (one    *)
(* session open at a time).                                                *)
(***************************************************************************)
Secuencial == {"a"}

Next ==
    \/ \E p \in Secuencial :
          \/ Create(p, ClienteCreate)
          \/ Update(p, Ids, ClienteUpdate)
          \/ Delete(p, Ids)
          \/ GetById(p, Ids)
          \/ Return(p)
    \/ (\A p \in Procs : res[p] = Idle) /\ InsertOrden

Spec == Init /\ [][Next]_vars

(***************************************************************************)
(* Strings as the database compares them (SQLite: BINARY collation for     *)
(* ORDER BY, lower() and LIKE fold ASCII letters only).                    *)
(***************************************************************************)
UPPERCASE ==
    << "A", "B", "C", "D", "E", "F", "G", "H", "I", "J", "K", "L", "M",
       "N", "O", "P", "Q", "R", "S", "T", "U", "V", "W", "X", "Y", "Z" >>
LOWERCASE ==
    << "a", "b", "c", "d", "e", "f", "g", "h", "i", "j", "k", "l", "m",
       "n", "o", "p", "q", "r", "s", "t", "u", "v", "w", "x", "y", "z" >>
DIGITS == << "0", "1", "2", "3", "4", "5", "6", "7", "8", "9" >>

\* The code point of a character.
ASCII(c) ==
    IF \E i \in 1 .. 26 : UPPERCASE[i] = c
    THEN 64 + (CHOOSE i \in 1 .. 26 : UPPERCASE[i] = c)
    ELSE IF \E i \in 1 .. 26 : LOWERCASE[i] = c
    THEN 96 + (CHOOSE i \in 1 .. 26 : LOWERCASE[i] = c)
    ELSE IF \E i \in 1 .. 10 : DIGITS[i] = c
    THEN 47 + (CHOOSE i \in 1 .. 10 : DIGITS[i] = c)
    ELSE CASE c = " " -> 32 [] c = "#" -> 35 [] c = "%" -> 37 [] c = "." -> 46
           [] c = "@" -> 64 [] c = "_" -> 95

\* lower() of one character: ASCII letters only.
LowerChar(c) ==
    IF \E i \in 1 .. 26 : UPPERCASE[i] = c
    THEN LOWERCASE[CHOOSE i \in 1 .. 26 : UPPERCASE[i] = c]
    ELSE c

lower(s) == [ i \in 1 .. Len(s) |-> LowerChar(s[i]) ]

\* s < t in the BINARY collation: byte by byte, a proper prefix first.
RECURSIVE StrLess(_, _)
StrLess(s, t) ==
    IF t = <<>> THEN FALSE
    ELSE IF s = <<>> THEN TRUE
    ELSE IF ASCII(Head(s)) # ASCII(Head(t)) THEN ASCII(Head(s)) < ASCII(Head(t))
    ELSE StrLess(Tail(s), Tail(t))

\* s LIKE pattern, no ESCAPE: % matches any run of characters, _ exactly one.
RECURSIVE LIKE(_, _)
LIKE(s, pattern) ==
    IF pattern = <<>> THEN s = <<>>
    ELSE IF Head(pattern) = "%"
         THEN LIKE(s, Tail(pattern)) \/ (s # <<>> /\ LIKE(Tail(s), pattern))
    ELSE /\ s # <<>>
         /\ Head(pattern) = "_" \/ LowerChar(Head(pattern)) = LowerChar(Head(s))
         /\ LIKE(Tail(s), Tail(pattern))

\* column.ilike(pattern): lower(column) LIKE lower(pattern).
ilike(column, pattern) == LIKE(lower(column), lower(pattern))

(***************************************************************************)
(* ClienteService.search_and_sort_clientes and the GET /clientes route.    *)
(***************************************************************************)
\* Rows of the stores searched.
NumFilas == 4
\* page is drawn from 1 .. MaxPage, limit from 1 .. MaxLimit.
MaxPage == 3
MaxLimit == 2

SearchPool ==
    << [id |-> MIN_ID, nombre |-> <<"J", "u">>, apellido |-> <<"D", "u">>,
        email |-> <<"j", "@", "m", ".", "c">>,
        contacto |-> MIN_CONTACTO, direccion |-> None],
       [id |-> MIN_ID + 1, nombre |-> <<"A", "n">>, apellido |-> <<"V", "a">>,
        email |-> <<"d", "u", "@", "m", ".", "c">>, contacto |-> MIN_CONTACTO,
        direccion |-> None],
       [id |-> MIN_ID + 2, nombre |-> <<"a", "d">>, apellido |-> <<"d", "u">>,
        email |-> <<"a", "@", "m", ".", "c">>,
        contacto |-> MIN_CONTACTO, direccion |-> None],
       [id |-> MIN_ID + 3, nombre |-> <<"J", "_">>, apellido |-> <<"D", "u">>,
        email |-> <<"n", "@", "m", ".", "c">>,
        contacto |-> MIN_CONTACTO, direccion |-> None],
       [id |-> MIN_ID + 4, nombre |-> <<"D", "U">>, apellido |-> <<"A", "n">>,
        email |-> <<"u", "@", "m", ".", "c">>,
        contacto |-> MIN_CONTACTO, direccion |-> None],
       [id |-> MIN_ID + 5, nombre |-> <<"a", "n">>, apellido |-> <<"V", "a">>,
        email |-> <<"v", "@", "m", ".", "c">>,
        contacto |-> MIN_CONTACTO, direccion |-> None] >>

SearchStores ==
    SUBSET { SearchPool[i] : i \in 1 .. IF NumFilas < Len(SearchPool)
                                         THEN NumFilas ELSE Len(SearchPool) }

\* The q parameter: absent (None), empty, or a search term.
Queries ==
    { None, Some(<<>>), Some(<<"d", "u">>), Some(<<"D", "U">>), Some(<<"a">>),
      Some(<<"@", "m">>), Some(<<"_">>), Some(<<"%">>), Some(<<"J", "_">>),
      Some(<<"v", "a">>) }

\* The filter: "if q:" is false for None and for the empty string.
search_filter(c, q) ==
    \/ q = None
    \/ The(q) = <<>>
    \/ ilike(c.nombre, <<"%">> \o The(q) \o <<"%">>)
    \/ ilike(c.apellido, <<"%">> \o The(q) \o <<"%">>)
    \/ ilike(c.email, <<"%">> \o The(q) \o <<"%">>)

\* The column ORDER BY names: "nombre", or apellido for anything else.
SortKey(c, sort) == IF sort = "nombre" THEN c.nombre ELSE c.apellido

\* a may come before b under ORDER BY key ASC / DESC.
MayPrecede(a, b, sort, order) ==
    IF order = "desc" THEN ~StrLess(SortKey(a, sort), SortKey(b, sort))
    ELSE ~StrLess(SortKey(b, sort), SortKey(a, sort))

\* Every sequence ORDER BY may return for the rows: the order of rows with
\* equal keys is the database's choice.
RECURSIVE order_by(_, _, _)
order_by(rows, sort, order) ==
    IF rows = {} THEN { <<>> }
    ELSE UNION { { <<m>> \o t : t \in order_by(rows \ {m}, sort, order) }
                 : m \in { a \in rows :
                             \A b \in rows : MayPrecede(a, b, sort, order) } }

\* query.offset(offset).limit(limit).all()
offset_limit(ordered, offset, limit) ==
    SubSeq(ordered, offset + 1,
           IF offset + limit < Len(ordered) THEN offset + limit ELSE Len(ordered))

\* search_and_sort_clientes(db, q, sort, order, offset, limit), statement by
\* statement; every call the page query's choice among rows of equal key may
\* leave:
\*   "count"  total = query.count();
\*   "page"   results = query.order_by(...).offset(offset).limit(limit).all();
\*            return results, total.
search_and_sort_clientes(db, c) ==
    LET query == { x \in db.clientes : search_filter(x, c.arg.q) }
    IN CASE c.pc = "count" ->
              { [db |-> db,
                 c |-> [Logged(c, <<"clientes.read">>) EXCEPT
                           !.seen = Some(Cardinality(query)), !.pc = "page"]] }
         [] c.pc = "page" ->
              { [db |-> db,
                 c |-> Returns(Logged(c, <<"clientes.read">>),
                               [results |-> offset_limit(o, c.arg.offset,
                                                         c.arg.limit),
                                total |-> The(c.seen)])]
                : o \in order_by(query, c.arg.sort, c.arg.order) }

\* An offset that takes page for a zero-based index.
OffsetDesdeCero(page, limit) == page * limit

\* buscar_clientes: offset = (page - 1) * limit
Offset(page, limit) == (page - 1) * limit

\* buscar_clientes: X-Total-Pages
TotalPages(total, limit) == (total + limit - 1) \div limit

\* The response headers buscar_clientes sets from the call's result.
Headers(c) ==
    [XTotalCount |-> c.ret.total, XPage |-> c.arg.page,
     XPerPage |-> c.arg.limit,
     XTotalPages |-> TotalPages(c.ret.total, c.arg.limit)]

\* The arguments buscar_clientes passes for its query parameters.  earlier
\* keeps the page the same client fetched just before with the same q, sort,
\* order and limit.
BuscarArg(q, sort, order, page, limit, earlier) ==
    [q |-> q, sort |-> sort, order |-> order, page |-> page, limit |-> limit,
     offset |-> Offset(page, limit), earlier |-> earlier]

\* GET /clientes on session p: a search is started (by an idle client, or as
\* the next page of the search just finished) and its first statement
\* executed, or the search in progress takes its next statement.
Buscar(p, queries, pages, limits) ==
    /\ \E c \in
          (IF res[p] # Idle /\ res[p].op = "search_and_sort_clientes"
              /\ res[p].pc = "done" /\ res[p].http = None
           THEN { Call("search_and_sort_clientes", "count",
                       BuscarArg(res[p].arg.q, res[p].arg.sort,
                                 res[p].arg.order, page, res[p].arg.limit,
                                 Some([page |-> res[p].arg.page,
                                       results |-> res[p].ret.results])),
                       DB, None)
                  : page \in pages \ {res[p].arg.page} }
           ELSE Pendientes(p, "search_and_sort_clientes",
                  { Call("search_and_sort_clientes", "count",
                         BuscarArg(q, sort, order, page, limit, None), DB, None)
                    : q \in queries, sort \in {"nombre", "apellido"},
                      order \in {"asc", "desc"}, page \in pages,
                      limit \in limits })) :
         \E s \in search_and_sort_clientes(DB, c) : Deja(p, s)
    /\ UNCHANGED <<now, hits, steps, issued>>

(***************************************************************************)
(* SpecSearch: searches made one after the other on a stored population.   *)
(***************************************************************************)
InitSearch ==
    /\ clientes \in SearchStores
    /\ ordenes = {}
    /\ users = {}
    /\ now = 0
    /\ hits = <<>>
    /\ steps = 0
    /\ issued = {}
    /\ res = [p \in Procs |-> Idle]

NextSearch ==
    \E p \in Secuencial :
       \/ Buscar(p, Queries, 1 .. MaxPage, 1 .. MaxLimit)
       \/ Return(p)

SpecSearch == InitSearch /\ [][NextSearch]_vars

(***************************************************************************)
(* SpecRace: calls of the customer repository on two sessions at once      *)
(* (the routes are plain defs, which FastAPI runs in its thread pool): the *)
(* statements of the two calls interleave.  One call per session.          *)
(***************************************************************************)
\* The calls made: creates of two ids and two emails, updates of the email
\* or the name, deletes, look-ups, and the search of the first page.
RaceCreates ==
    { d \in ClienteCreate :
        d.nombre = <<"A", "n", "a">> /\ d.direccion = None }
RaceUpdates ==
    { <<>> } \cup { ("email" :> Some(e)) : e \in Emails }
             \cup { ("nombre" :> Some(<<"J", "u", "a", "n">>)) }

\* The tables before the two calls: customers with distinct ids and emails.
RaceStores ==
    { S \in SUBSET { Fila(d) : d \in RaceCreates } :
        \A x, y \in S : (x.id = y.id \/ x.email = y.email) => x = y }

InitRace ==
    /\ clientes \in RaceStores
    /\ ordenes = {}
    /\ users = {}
    /\ now = 0
    /\ hits = <<>>
    /\ steps = 0
    /\ issued = {}
    /\ res = [p \in Procs |-> Idle]

\* Each session serves one call.
NextRace ==
    \/ \E p \in Procs :
          \/ Create(p, RaceCreates)
          \/ Update(p, Ids, RaceUpdates)
          \/ Delete(p, Ids)
          \/ GetById(p, Ids)
          \/ Buscar(p, {None}, {1}, {2})
    \/ InsertOrden

SpecRace == InitRace /\ [][NextRace]_vars

(***************************************************************************)
(* app/services/auth_service.py: the token service.                        *)
(*                                                                         *)
(* A JWT is the record of its claims and its signature; the signature is   *)
(* modelled as the key and the claims it was computed over, so that it     *)
(* verifies exactly when the claims are those signed and the key is the    *)
(* verifier's.  Time is counted in minutes.                                *)
(***************************************************************************)
\* Clock advances explored by SpecTok.
MaxTicks == 3
\* Tokens handed out in one exploration of SpecTok.
MaxTokens == 2

ACCESS_TOKEN_EXPIRE_MINUTES == 60
SECRET_KEY == "change-this-to-a-secure-random-key-in-production"

Usernames == { <<"a", "d", "m", "i", "n">>, <<"a", "n", "a">> }

\* The HS256 signature of the claims under a key.
Sign(key, claims) == [key |-> key, claims |-> claims]

\* data is the dict {"sub": ...}; expires_delta is Optional, in minutes (a zero
\* timedelta is falsy and takes the default); t is datetime.utcnow().
create_access_token(data, expires_delta, t) ==
    LET expire == IF expires_delta # None /\ The(expires_delta) # 0
                  THEN t + The(expires_delta)
                  ELSE t + ACCESS_TOKEN_EXPIRE_MINUTES
        to_encode == [sub |-> data.sub, exp |-> expire]
    IN [claims |-> to_encode, sig |-> Sign(SECRET_KEY, to_encode)]

\* A decode that does not look at exp.
decode_token_sin_exp(token, t) ==
    IF token.sig # Sign(SECRET_KEY, token.claims) THEN None
    ELSE Some(token.claims.sub)

\* jwt.decode raises JWTError on a signature that does not verify and on
\* exp < now; otherwise the token's sub is returned.
decode_token(token, t) ==
    IF token.sig # Sign(SECRET_KEY, token.claims) THEN None
    ELSE IF token.claims.exp < t THEN None
    ELSE Some(token.claims.sub)

\* What a client can present besides the tokens it was given: a token whose
\* claims were edited (another sub, a later exp) under the old signature, and a
\* token signed with a key of its own.
Tampered(token) ==
    { [claims |-> [sub |-> u, exp |-> token.claims.exp], sig |-> token.sig]
        : u \in Usernames \ {token.claims.sub} }
    \cup { [claims |-> [sub |-> token.claims.sub,
                        exp |-> token.claims.exp + ACCESS_TOKEN_EXPIRE_MINUTES],
            sig |-> token.sig] }
    \cup { [claims |-> token.claims, sig |-> Sign("otra-clave", token.claims)] }

\* SpecTok: create_access_token and decode_token as the clock advances.  Each
\* is one statement: it reads the clock once and touches no table.
Emitir(p) ==
    /\ res[p] = Idle
    /\ Cardinality(issued) < MaxTokens
    /\ \E u \in Usernames :
         LET token == create_access_token([sub |-> u], None, now)
         IN /\ issued' = issued \cup {[token |-> token, sub |-> u, at |-> now]}
            /\ res' = [res EXCEPT ![p] =
                         Returns(Call("create_access_token", "encode",
                                      [sub |-> u, now |-> now], DB, None),
                                 token)]
    /\ UNCHANGED <<clientes, ordenes, users, now, hits, steps>>

Decodificar(p) ==
    /\ res[p] = Idle
    /\ \E i \in issued :
         \E token \in {i.token} \cup Tampered(i.token) :
            res' = [res EXCEPT ![p] =
                      Returns(Call("decode_token", "decode",
                                   [token |-> token, now |-> now], DB, None),
                              decode_token(token, now))]
    /\ UNCHANGED <<clientes, ordenes, users, now, hits, steps, issued>>

\* Time passes: a minute, or a minute short of the token lifetime.
Tick ==
    /\ steps < MaxTicks
    /\ \E d \in {1, ACCESS_TOKEN_EXPIRE_MINUTES - 1} : now' = now + d
    /\ steps' = steps + 1
    /\ UNCHANGED <<clientes, ordenes, users, hits, issued, res>>

NextTok ==
    \/ \E p \in Secuencial : Emitir(p) \/ Decodificar(p) \/ Return(p)
    \/ Tick

SpecTok == Init /\ [][NextTok]_vars

(***************************************************************************)
(* app/services/auth_service.py: the credential store.                     *)
(***************************************************************************)
Passwords == { <<"a", "d", "m", "i", "n", "1", "2", "3">>,
               <<"s", "e", "c", "r", "e", "t", "a">> }
\* The salts bcrypt may draw.
Salts == { "salt1", "salt2" }

\* pwd_context.hash: bcrypt of the password under a fresh salt.
get_password_hash(password, salt) ==
    [scheme |-> "bcrypt", salt |-> salt, digest |-> <<salt, password>>]

\* pwd_context.verify: the digest of the plain password under the hash's salt.
verify_password(plain_password, hashed_password) ==
    hashed_password.digest = <<hashed_password.salt, plain_password>>

\* db.query(User).filter(User.username == username).first()
get_user_by_username(db, username) ==
    IF \E u \in db.users : u.username = username
    THEN Some(CHOOSE u \in db.users : u.username = username)
    ELSE None

\* The key the database generates for a new row of users.
NextUserId(db) ==
    IF db.users = {} THEN 1
    ELSE 1 + CHOOSE n \in { u.id : u \in db.users } :
                 \A u \in db.users : u.id <= n

\* db.add(user); db.commit(): username is unique and NOT NULL.
INSERT_user(db, username, hashed_password) ==
    IF \E u \in db.users : u.username = username
    THEN [db |-> db, exc |-> "IntegrityError"]
    ELSE [db |-> [db EXCEPT !.users = @ \cup
                     {[id |-> NextUserId(db), username |-> username,
                       hashed_password |-> hashed_password]}],
          exc |-> ""]

\* db.refresh(user): the row is read back by its primary key.
refresh_user(c, db) ==
    IF \E u \in db.users : u.id = The(c.seen)
    THEN Returns(Logged(c, <<"users.read">>),
                 Some(CHOOSE u \in db.users : u.id = The(c.seen)))
    ELSE Raises(Logged(c, <<"users.read">>), "InvalidRequestError")

\* A create_user that stores the new hash over the existing user's.
create_user_reemplaza(db, c) ==
    CASE c.pc = "existing_user" ->
           LET existing_user == get_user_by_username(db, c.arg.username)
               hashed == get_password_hash(c.arg.password, c.arg.salt)
           IN IF existing_user # None
              THEN [db |-> [db EXCEPT !.users =
                               (@ \ existing_user) \cup
                               {[The(existing_user) EXCEPT
                                    !.hashed_password = hashed]}],
                    c |-> Returns(Logged(c, <<"users.read", "get_password_hash",
                                              "users.write">>), None)]
              ELSE [db |-> db,
                    c |-> [Logged(c, <<"users.read">>) EXCEPT !.pc = "commit"]]
      [] c.pc = "commit" ->
           LET hashed_password == get_password_hash(c.arg.password, c.arg.salt)
               r == INSERT_user(db, c.arg.username, hashed_password)
               l == Logged(c, <<"get_password_hash", "users.write">>)
           IN [db |-> r.db,
               c |-> IF r.exc # "" THEN Raises(l, r.exc)
                     ELSE [l EXCEPT !.pc = "refresh",
                                    !.seen = Some(NextUserId(db))]]
      [] c.pc = "refresh" -> [db |-> db, c |-> refresh_user(c, db)]

\* create_user(db, username, password), statement by statement:
\*   "existing_user"  the look-up; return None when it finds a user;
\*   "commit"         the hash, db.add(user) and db.commit();
\*   "refresh"        db.refresh(user); return user.
\* arg.salt is the salt bcrypt draws for this call's hash; seen keeps the key
\* the INSERT generated.
create_user(db, c) ==
    CASE c.pc = "existing_user" ->
           LET existing_user == get_user_by_username(db, c.arg.username)
               l == Logged(c, <<"users.read">>)
           IN [db |-> db,
               c |-> IF existing_user # None THEN Returns(l, None)
                     ELSE [l EXCEPT !.pc = "commit"]]
      [] c.pc = "commit" ->
           LET hashed_password == get_password_hash(c.arg.password, c.arg.salt)
               r == INSERT_user(db, c.arg.username, hashed_password)
               l == Logged(c, <<"get_password_hash", "users.write">>)
           IN [db |-> r.db,
               c |-> IF r.exc # "" THEN Raises(l, r.exc)
                     ELSE [l EXCEPT !.pc = "refresh",
                                    !.seen = Some(NextUserId(db))]]
      [] c.pc = "refresh" -> [db |-> db, c |-> refresh_user(c, db)]

\* authenticate_user(db, username, password): the look-up, and the
\* verification of the password only when the look-up found a user.
authenticate_user(db, c) ==
    LET user == get_user_by_username(db, c.arg.username)
    IN [db |-> db,
        c |-> IF user = None
              THEN Returns(Logged(c, <<"users.read">>), None)
              ELSE IF ~verify_password(c.arg.password, The(user).hashed_password)
              THEN Returns(Logged(c, <<"users.read", "verify_password">>), None)
              ELSE Returns(Logged(c, <<"users.read", "verify_password">>), user)]

(***************************************************************************)
(* SpecUsers: calls of the credential store made one after the other.      *)
(***************************************************************************)
CrearUsuario(p, usernames, passwords) ==
    /\ \E c \in Pendientes(p, "create_user",
                    { Call("create_user", "existing_user",
                           [username |-> u, password |-> w, salt |-> salt],
                           DB, None)
                      : u \in usernames, w \in passwords, salt \in Salts }) :
         Deja(p, create_user(DB, c))
    /\ UNCHANGED <<now, hits, steps, issued>>

Autenticar(p, usernames, passwords) ==
    /\ \E c \in Pendientes(p, "authenticate_user",
                    { Call("authenticate_user", "user",
                           [username |-> u, password |-> w], DB, None)
                      : u \in usernames, w \in passwords }) :
         Deja(p, authenticate_user(DB, c))
    /\ UNCHANGED <<now, hits, steps, issued>>

NextUsers ==
    \E p \in Secuencial :
       \/ CrearUsuario(p, Usernames, Passwords)
       \/ Autenticar(p, Usernames, Passwords)
       \/ Return(p)

SpecUsers == Init /\ [][NextUsers]_vars

(***************************************************************************)
(* app/main.py and app/api/routers: the request pipeline.                  *)
(*                                                                         *)
(* FastAPI resolves a route's dependencies (oauth2_scheme, get_current_user,*)
(* get_db) and only then calls the route function; @limiter.limit wraps the *)
(* route function, so its check runs at that call.  A request in progress  *)
(* is the call of the service function its route makes, with               *)
(*   http = Some([endpoint, path, token, ip, at, user_id, status, body,     *)
(*                pending, sent, client]):                                  *)
(* path is the path of its URL, ip its source address, at the time it was  *)
(* received, status the status code the route returns or raises (0 until   *)
(* then) and body what it returns, pending the customers of the answer     *)
(* still to be serialised and sent those serialised, client the status     *)
(* code that reaches the client (0 until then).  Its statements are        *)
(*   "decode_token", "get_user"   get_current_user (protected routes);     *)
(*   "limit"                      the wrapper of @limiter.limit;           *)
(*   the statements of the service function;                               *)
(*   the rest of the route function, once the service call is done;        *)
(*   the serialisation of the answer by its response_model, which reads    *)
(*   the ordenes of each customer with a SELECT of its own.                *)
(***************************************************************************)
\* Requests received in one exploration of SpecHttp.
MaxReqs == 2
\* The configured budgets RATE_LIMIT_API_PER_MIN and RATE_LIMIT_AUTH_PER_MIN
\* ("<n>/minute", read from the environment), set low enough to be exceeded.
RATE_LIMIT_API_PER_MIN == 1
RATE_LIMIT_AUTH_PER_MIN == 1

\* The source addresses of the requests (get_remote_address).
RemoteAddress == <<"1", "0", ".", "0", ".", "0", ".", "1">>
RemoteAddresses == { RemoteAddress, <<"1", "0", ".", "0", ".", "0", ".", "2">> }

ProtectedEndpoints ==
    { "crear_cliente", "listar_clientes", "obtener_cliente",
      "actualizar_cliente", "eliminar_cliente", "buscar_clientes",
      "get_current_user_info" }

AuthEndpoints == { "register", "login" }

\* The service function a route calls and its first statement; the route of
\* /me and the health check call none.
Servicio(endpoint) ==
    CASE endpoint = "crear_cliente" -> [op |-> "create_cliente", pc |-> "existing"]
      [] endpoint = "listar_clientes" -> [op |-> "get_all_clientes", pc |-> "all"]
      [] endpoint = "obtener_cliente" -> [op |-> "get_cliente_by_id", pc |-> "cliente"]
      [] endpoint = "actualizar_cliente" -> [op |-> "update_cliente", pc |-> "cliente"]
      [] endpoint = "eliminar_cliente" -> [op |-> "delete_cliente", pc |-> "cliente"]
      [] endpoint = "buscar_clientes" ->
           [op |-> "search_and_sort_clientes", pc |-> "count"]
      [] endpoint = "register" -> [op |-> "create_user", pc |-> "existing_user"]
      [] endpoint = "login" -> [op |-> "authenticate_user", pc |-> "user"]
      [] OTHER -> [op |-> endpoint, pc |-> "done"]

\* The request of a call, and the call with fields of its request changed.
H(c) == The(c.http)
Rechaza(c, status) ==
    [c EXCEPT !.pc = "done",
              !.http = Some([H(c) EXCEPT !.status = status, !.client = status])]

\* request.state.user_id if the request was verified, else the source address.
user_or_ip_key(user_id, ip) == IF user_id # None THEN The(user_id) ELSE ip

\* The value of a {cliente_id} path segment (cliente_id: int): the decimal
\* numeral is parsed, so that "018008332" and "18008332" name one customer.
RECURSIVE int(_)
int(text) ==
    IF text = <<>> THEN 0
    ELSE 10 * int(SubSeq(text, 1, Len(text) - 1))
         + (CHOOSE i \in 1 .. 10 : DIGITS[i] = text[Len(text)]) - 1

\* The path of a request (request["path"]) as the client wrote it: the prefix
\* of the router and the path of the route, with the text the request gives
\* for {cliente_id}.
Path(endpoint, segment) ==
    CASE endpoint \in {"crear_cliente", "buscar_clientes"} ->
           [prefix |-> "/clientes", segment |-> None]
      [] endpoint = "listar_clientes" ->
           [prefix |-> "/clientes/todos", segment |-> None]
      [] endpoint \in {"obtener_cliente", "actualizar_cliente",
                       "eliminar_cliente"} ->
           [prefix |-> "/clientes/", segment |-> segment]
      [] endpoint = "get_current_user_info" ->
           [prefix |-> "/me", segment |-> None]
      [] endpoint = "register" -> [prefix |-> "/auth/register", segment |-> None]
      [] endpoint = "login" -> [prefix |-> "/auth/login", segment |-> None]
      [] OTHER -> [prefix |-> "/health", segment |-> None]

\* The counters of the limits.  A Limiter counts a limit under the key of the
\* request and the path of the request (key_style "url"), whatever the method
\* and the route function: POST /clientes and GET /clientes share a counter,
\* as GET, PUT and DELETE of one path /clientes/<text> do, and two texts have
\* two, even when they spell one cliente_id.  The three Limiters (main.py,
\* routers/auth.py, routers/clientes.py) keep counters of their own; no path
\* is limited by two of them.  A counter [n, expires] starts with its first
\* hit and expires one minute later; a hit on an expired counter starts it
\* again.  Hits is the count at time t.
Hits(h, path, key, t) ==
    IF <<path, key>> \in DOMAIN h /\ t < h[<<path, key>>].expires
    THEN h[<<path, key>>].n ELSE 0

hit(h, path, key, t) ==
    [ k \in DOMAIN h \cup {<<path, key>>} |->
        IF k # <<path, key>> THEN h[k]
        ELSE IF Hits(h, path, key, t) = 0 THEN [n |-> 1, expires |-> t + 1]
        ELSE [n |-> h[k].n + 1, expires |-> h[k].expires] ]

\* A dependency that lets an unverified request through as anonymous.
get_current_user_sin_rechazo(db, c, t) ==
    IF c.pc = "decode_token"
    THEN [Logged(c, IF H(c).token = None THEN <<>> ELSE <<"decode_token">>)
             EXCEPT !.pc = "get_user"]
    ELSE [Logged(c, <<"users.read">>) EXCEPT !.pc = "limit"]

\* oauth2_scheme (401 when there is no Authorization header) and
\* get_current_user, statement by statement:
\*   "decode_token"  username = AuthService.decode_token(token), at time t;
\*                   401 when it is None;
\*   "get_user"      user = AuthService.get_user_by_username(db, username);
\*                   401 when it is None, else request.state.user_id is set.
get_current_user(db, c, t) ==
    CASE c.pc = "decode_token" ->
           IF H(c).token = None THEN Rechaza(c, 401)
           ELSE LET username == decode_token(The(H(c).token), t)
                    l == Logged(c, <<"decode_token">>)
                IN IF username = None THEN Rechaza(l, 401)
                   ELSE [l EXCEPT !.pc = "get_user", !.found = username]
      [] c.pc = "get_user" ->
           LET user == get_user_by_username(db, The(c.found))
               l == [Logged(c, <<"users.read">>) EXCEPT !.found = None]
           IN IF user = None THEN Rechaza(l, 401)
              ELSE [l EXCEPT !.pc = "limit",
                             !.http = Some([H(c) EXCEPT !.user_id = c.found])]

\* The key and the budget of a route's limit: the routes of the auth router
\* are keyed by the source address (get_remote_address), the others by
\* user_or_ip_key.
LimitKey(c) ==
    IF H(c).endpoint \in AuthEndpoints THEN H(c).ip
    ELSE user_or_ip_key(H(c).user_id, H(c).ip)

Limit(c) ==
    IF H(c).endpoint \in AuthEndpoints THEN RATE_LIMIT_AUTH_PER_MIN
    ELSE RATE_LIMIT_API_PER_MIN

\* @limiter.limit(limit, key_func), at time t: the hit is counted;
\* RateLimitExceeded (429) when the key has used its budget, else the route
\* function is called.
limited(h, c, t) ==
    [hits |-> hit(h, H(c).path, LimitKey(c), t),
     c |-> IF Hits(h, H(c).path, LimitKey(c), t) >= Limit(c)
           THEN Rechaza(Logged(c, <<"rate_check">>), 429)
           ELSE [Logged(c, <<"rate_check", "handler">>) EXCEPT
                    !.pc = Servicio(H(c).endpoint).pc]]

\* ---- the route functions: the status and body they answer with once the
\* ---- service call c has returned or raised --------------------------------
crear_cliente(c) ==
    IF c.exc # "" THEN [status |-> 500, body |-> None]
    ELSE IF c.ret = None THEN [status |-> 409, body |-> None]
    ELSE [status |-> 201, body |-> c.ret]

listar_clientes(c) == [status |-> 200, body |-> Some(c.ret)]

obtener_cliente(c) ==
    IF c.ret = None THEN [status |-> 404, body |-> None]
    ELSE [status |-> 200, body |-> c.ret]

actualizar_cliente(c) ==
    IF c.exc = "ValueError" THEN [status |-> 400, body |-> None]
    ELSE IF c.exc # "" THEN [status |-> 500, body |-> None]
    ELSE IF c.ret = None THEN [status |-> 404, body |-> None]
    ELSE [status |-> 200, body |-> c.ret]

eliminar_cliente(c) ==
    IF c.exc # "" THEN [status |-> 500, body |-> None]
    ELSE IF c.ret = None THEN [status |-> 404, body |-> None]
    ELSE IF c.ret = Some(FALSE) THEN [status |-> 400, body |-> None]
    ELSE [status |-> 204, body |-> None]

buscar_clientes(c) ==
    [status |-> 200,
     body |-> Some([results |-> c.ret.results, headers |-> Headers(c)])]

get_current_user_info(c) == [status |-> 200, body |-> H(c).user_id]

register(c) ==
    IF c.exc # "" THEN [status |-> 500, body |-> None]
    ELSE IF c.ret = None THEN [status |-> 400, body |-> None]
    ELSE [status |-> 201, body |-> Some(The(c.ret).username)]

login(c, t) ==
    IF c.ret = None THEN [status |-> 401, body |-> None]
    ELSE [status |-> 200,
          body |-> Some(create_access_token([sub |-> The(c.ret).username],
                                            None, t))]

health_check(c) == [status |-> 200, body |-> None]

Respuesta(c, t) ==
    CASE H(c).endpoint = "crear_cliente" -> crear_cliente(c)
      [] H(c).endpoint = "listar_clientes" -> listar_clientes(c)
      [] H(c).endpoint = "obtener_cliente" -> obtener_cliente(c)
      [] H(c).endpoint = "actualizar_cliente" -> actualizar_cliente(c)
      [] H(c).endpoint = "eliminar_cliente" -> eliminar_cliente(c)
      [] H(c).endpoint = "buscar_clientes" -> buscar_clientes(c)
      [] H(c).endpoint = "get_current_user_info" -> get_current_user_info(c)
      [] H(c).endpoint = "register" -> register(c)
      [] H(c).endpoint = "login" -> login(c, t)
      [] H(c).endpoint = "health_check" -> health_check(c)

\* What reaches the client.  not_found_handler and internal_error_handler
\* return a dict, which is no response: an HTTPException(404) handed to the
\* first fails as the exception no route catches does with the second, and
\* the server answers 500 itself.
Client(status) == IF status \in {404, 500} THEN 500 ELSE status

\* The customers a route hands to its response_model (ClienteResponse or a
\* list of it) when it answers with status: none when it raised.
Serializable(c, status) ==
    IF status \notin {200, 201} THEN <<>>
    ELSE CASE H(c).endpoint \in {"crear_cliente", "obtener_cliente",
                                 "actualizar_cliente"} -> <<The(c.ret)>>
           [] H(c).endpoint = "listar_clientes" -> c.ret
           [] H(c).endpoint = "buscar_clientes" -> c.ret.results
           [] OTHER -> <<>>

\* List[OrdenResponse] of the rows ords, by their primary key: consecutivo,
\* tipo and id_cliente of each.
RECURSIVE OrdenResponse(_)
OrdenResponse(ords) ==
    IF ords = {} THEN <<>>
    ELSE LET first == CHOOSE o \in ords :
                         \A x \in ords : o.consecutivo <= x.consecutivo
         IN <<[consecutivo |-> first.consecutivo, tipo |-> first.tipo,
               id_cliente |-> first.id_cliente]>>
            \o OrdenResponse(ords \ {first})

\* ClienteResponse (from_attributes) of a customer the session holds: its
\* columns as loaded, and cliente.ordenes, which the relationship loads from
\* the table when the attribute is read.
ClienteResponse(db, cliente) ==
    [id |-> cliente.id, nombre |-> cliente.nombre,
     apellido |-> cliente.apellido, email |-> cliente.email,
     contacto |-> cliente.contacto, direccion |-> cliente.direccion,
     ordenes |-> OrdenResponse(OrdenesDe(db.ordenes, cliente))]

\* The statement c.pc of a service call: every outcome it may have.
Step(db, c) ==
    CASE c.op = "create_cliente" -> { create_cliente(db, c) }
      [] c.op = "update_cliente" -> { update_cliente(db, c) }
      [] c.op = "delete_cliente" -> { delete_cliente(db, c) }
      [] c.op = "get_cliente_by_id" ->
           { [db |-> db,
              c |-> Returns(Logged(c, <<"clientes.read">>),
                            get_cliente_by_id(db.clientes, c.arg.cliente_id))] }
      [] c.op = "get_all_clientes" ->
           { [db |-> db,
              c |-> Returns(Logged(c, <<"clientes.read">>),
                            get_all_clientes(db.clientes))] }
      [] c.op = "search_and_sort_clientes" -> search_and_sort_clientes(db, c)
      [] c.op = "create_user" -> { create_user(db, c) }
      [] c.op = "authenticate_user" -> { authenticate_user(db, c) }

(***************************************************************************)
(* app/main.py: startup_event.                                             *)
(***************************************************************************)
Admin == <<"a", "d", "m", "i", "n">>
AdminPassword == <<"a", "d", "m", "i", "n", "1", "2", "3">>

\* The three seeded customers; contacto is written as the decimal numeral.
clientes_prueba ==
    << [id |-> 18008332, nombre |-> <<"J", "u", "a", "n">>,
        apellido |-> <<"D", "u", "r", "a", "n">>,
        email |-> <<"j", "u", "d", "u", "1", "@", "m", "a", "i", "l", ".", "c", "o", "m">>,
        contacto |-> <<"3", "0", "0", "1", "0", "0", "0", "0", "0", "0">>,
        direccion |-> Some(<<"A", "v", " ", "C", "a", "r", "a", "c", "a", "s", " ", "#", "1", "2", "3">>)],
       [id |-> 12350011, nombre |-> <<"D", "i", "a", "n", "a">>,
        apellido |-> <<"V", "a", "l", "e", "n", "t", "i", "n", "a">>,
        email |-> <<"d", "i", "v", "a", "1", "@", "m", "a", "i", "l", ".", "c", "o", "m">>,
        contacto |-> <<"3", "0", "0", "2", "0", "0", "0", "0", "0", "0">>,
        direccion |-> Some(<<"A", "v", " ", "Q", "u", "i", "t", "o", " ", "#", "7", "7", "2">>)],
       [id |-> 22315085, nombre |-> <<"A", "d", "a", "m">>,
        apellido |-> <<"S", "a", "n", "t", "a", "n", "a">>,
        email |-> <<"a", "n", "s", "a", "1", "@", "m", "a", "i", "l", ".", "c", "o", "m">>,
        contacto |-> <<"3", "0", "0", "3", "0", "0", "0", "0", "0", "0">>,
        direccion |-> None] >>

\* A call of startup_event run from its first statement to its return: no
\* request is served meanwhile, and no function has more than four statements.
Entera(db, c) ==
    LET paso(s) == IF s.c.pc = "done" THEN s
                   ELSE IF s.c.op = "create_user" THEN create_user(s.db, s.c)
                   ELSE create_cliente(s.db, s.c)
    IN paso(paso(paso(paso([db |-> db, c |-> c]))))

\* The loop over clientes_prueba, from the i-th on; an exception ends it.
RECURSIVE crear_clientes_prueba(_, _)
crear_clientes_prueba(db, i) ==
    IF i > Len(clientes_prueba) THEN db
    ELSE IF get_cliente_by_id(db.clientes, clientes_prueba[i].id) # None
    THEN crear_clientes_prueba(db, i + 1)
    ELSE LET s == Entera(db,
                         Call("create_cliente", "existing",
                              [data |-> clientes_prueba[i]], db, None))
         IN IF s.c.exc # "" THEN s.db
            ELSE crear_clientes_prueba(s.db, i + 1)

\* The tables startup_event leaves of the tables db it finds; no request is
\* served until it has finished.
startup_event(db, salt) ==
    IF get_user_by_username(db, Admin) # None THEN crear_clientes_prueba(db, 1)
    ELSE LET s == Entera(db,
                         Call("create_user", "existing_user",
                              [username |-> Admin, password |-> AdminPassword,
                               salt |-> salt], db, None))
         IN IF s.c.exc # "" THEN s.db
            ELSE crear_clientes_prueba(s.db, 1)

(***************************************************************************)
(* SpecHttp: requests received while others are in progress.               *)
(***************************************************************************)
\* The time at which SpecHttp starts serving, and the minutes that pass
\* while it is explored.
T0 == ACCESS_TOKEN_EXPIRE_MINUTES + 1
MaxMinutos == 1

\* The Authorization header of a request: absent, or one of: a token of admin
\* still valid, one of admin expired, one of a name that may not be
\* registered, and that last token with its sub edited to admin.
AdminToken == Some(create_access_token([sub |-> Admin], None, T0))
HttpTokens ==
    LET ana == create_access_token([sub |-> <<"a", "n", "a">>], None, T0)
    IN { None,
         AdminToken,
         Some(create_access_token([sub |-> Admin], None, 0)),
         Some(ana),
         Some([claims |-> [sub |-> Admin, exp |-> ana.claims.exp],
               sig |-> ana.sig]) }

\* Bodies of POST /clientes: a new customer, a stored customer again, and a
\* new id with a stored customer's email.
NuevoCliente ==
    [id |-> MIN_ID, nombre |-> <<"A", "n", "a">>, apellido |-> <<"D", "i", "a", "z">>,
     email |-> <<"a", "n", "a", "@", "m", "a", "i", "l", ".", "c", "o", "m">>,
     contacto |-> MIN_CONTACTO, direccion |-> None]
HttpCreates ==
    { NuevoCliente,
      clientes_prueba[1],
      [NuevoCliente EXCEPT !.email = clientes_prueba[2].email] }

\* The text a request gives for {cliente_id}: a seeded customer's id and an
\* id no seeded customer has; a GET also writes the first with a leading zero.
IdSembrado == <<"1", "8", "0", "0", "8", "3", "3", "2">>
HttpIds == { IdSembrado, <<"1", "0", "0", "0", "0", "0">> }
HttpIdsGet == HttpIds \cup { <<"0">> \o IdSembrado }

\* Bodies of PUT /clientes/{id}: a new email, no field, and a stored
\* customer's email.
NuevoEmail == "email" :> Some(NuevoCliente.email)
HttpUpdates ==
    { NuevoEmail, <<>>, "email" :> Some(clientes_prueba[2].email) }

HttpQueries == { None, Some(<<"d", "u", "r", "a", "n">>) }

\* The ids, bodies and queries a request is explored with: all of them with
\* admin's valid token, and with any other Authorization header the one that
\* would change or read the store.
Con(token, all, one) == IF token = AdminToken THEN all ELSE {one}

\* The salt bcrypt draws at startup and for POST /auth/register.
HttpSalts == { "salt1" }

\* Session p receives a request and executes the first statement of its
\* pipeline: get_current_user's on a protected route, the limit's on a route
\* of the auth router, the route function itself on the health check.
Recibir(p, endpoint, segment, token, ip, arg) ==
    /\ res[p] = Idle
    /\ steps < MaxReqs
    /\ steps' = steps + 1
    /\ LET c == Call(Servicio(endpoint).op,
                     IF endpoint \in ProtectedEndpoints THEN "decode_token"
                     ELSE IF endpoint \in AuthEndpoints THEN "limit"
                     ELSE "done",
                     arg, DB,
                     Some([endpoint |-> endpoint,
                           path |-> Path(endpoint, segment),
                           token |-> token, ip |-> ip, at |-> now,
                           user_id |-> None, status |-> 0, body |-> None,
                           pending |-> <<>>, sent |-> <<>>, client |-> 0]))
       IN IF endpoint \in ProtectedEndpoints
          THEN /\ res' = [res EXCEPT ![p] = get_current_user(DB, c, now)]
               /\ hits' = hits
          ELSE IF endpoint \in AuthEndpoints
          THEN /\ res' = [res EXCEPT ![p] = limited(hits, c, now).c]
               /\ hits' = limited(hits, c, now).hits
          ELSE /\ res' = [res EXCEPT ![p] = Logged(c, <<"handler">>)]
               /\ hits' = hits
    /\ UNCHANGED <<clientes, ordenes, users, now, issued>>

PostClientes(p) ==
    \E token \in HttpTokens :
      \E d \in Con(token, HttpCreates, NuevoCliente) :
        Recibir(p, "crear_cliente", None, token, RemoteAddress, [data |-> d])

GetClientesTodos(p) ==
    \E token \in HttpTokens :
        Recibir(p, "listar_clientes", None, token, RemoteAddress, <<>>)

GetCliente(p) ==
    \E token \in HttpTokens :
      \E i \in Con(token, HttpIdsGet, IdSembrado) :
        Recibir(p, "obtener_cliente", Some(i), token, RemoteAddress,
                [cliente_id |-> int(i)])

PutCliente(p) ==
    \E token \in HttpTokens :
      \E i \in Con(token, HttpIds, IdSembrado),
         u \in Con(token, HttpUpdates, NuevoEmail) :
        Recibir(p, "actualizar_cliente", Some(i), token, RemoteAddress,
                [cliente_id |-> int(i), data |-> u])

DeleteCliente(p) ==
    \E token \in HttpTokens :
      \E i \in Con(token, HttpIds, IdSembrado) :
        Recibir(p, "eliminar_cliente", Some(i), token, RemoteAddress,
                [cliente_id |-> int(i)])

GetClientes(p) ==
    \E token \in HttpTokens :
      \E q \in Con(token, HttpQueries, None) :
        Recibir(p, "buscar_clientes", None, token, RemoteAddress,
                BuscarArg(q, "apellido", "asc", 1, 10, None))

GetMe(p) ==
    \E token \in HttpTokens :
        Recibir(p, "get_current_user_info", None, token, RemoteAddress, <<>>)

PostRegister(p) ==
    \E u \in Usernames, salt \in HttpSalts, ip \in RemoteAddresses :
        Recibir(p, "register", None, None, ip,
                [username |-> u, password |-> AdminPassword, salt |-> salt])

PostLogin(p) ==
    \E u \in Usernames, pw \in Passwords :
        Recibir(p, "login", None, None, RemoteAddress,
                [username |-> u, password |-> pw])

GetHealth(p) == Recibir(p, "health_check", None, None, RemoteAddress, <<>>)

\* get_current_user's look-up of the user the token names.
Autorizar(p) ==
    /\ res[p] # Idle
    /\ res[p].http # None
    /\ res[p].pc = "get_user"
    /\ res' = [res EXCEPT ![p] = get_current_user(DB, res[p], now)]
    /\ UNCHANGED <<clientes, ordenes, users, now, hits, steps, issued>>

\* The limit of a protected route, checked once its dependencies are resolved.
Limitar(p) ==
    /\ res[p] # Idle
    /\ res[p].http # None
    /\ res[p].pc = "limit"
    /\ res' = [res EXCEPT ![p] = limited(hits, res[p], now).c]
    /\ hits' = limited(hits, res[p], now).hits
    /\ UNCHANGED <<clientes, ordenes, users, now, steps, issued>>

\* The next statement of the service call the route function made.
Ejecutar(p) ==
    /\ res[p] # Idle
    /\ res[p].http # None
    /\ res[p].pc \in Sentencias(res[p].op)
    /\ \E s \in Step(DB, res[p]) : Deja(p, s)
    /\ UNCHANGED <<now, hits, steps, issued>>

\* The route function answers once its service call is done; login issues its
\* token at the time of the answer.  An answer with customers in it reaches
\* the client once they are serialised.
Responder(p) ==
    /\ res[p] # Idle
    /\ res[p].http # None
    /\ res[p].pc = "done"
    /\ H(res[p]).status = 0
    /\ LET r == Respuesta(res[p], now)
           rows == Serializable(res[p], r.status)
       IN /\ res' = [res EXCEPT ![p] =
                       [Logged(res[p],
                               IF H(res[p]).endpoint = "login" /\ r.status = 200
                               THEN <<"create_access_token">> ELSE <<>>)
                          EXCEPT !.http = Some([H(res[p]) EXCEPT
                                                  !.status = r.status,
                                                  !.body = r.body,
                                                  !.pending = rows,
                                                  !.client =
                                                     IF rows = <<>>
                                                     THEN Client(r.status)
                                                     ELSE 0])]]
          /\ issued' = IF H(res[p]).endpoint = "login" /\ r.status = 200
                       THEN issued \cup {[token |-> The(r.body),
                                          sub |-> The(r.body).claims.sub,
                                          at |-> now]}
                       ELSE issued
    /\ UNCHANGED <<clientes, ordenes, users, now, hits, steps>>

\* The response_model serialises the next customer of the answer: reading
\* cliente.ordenes loads the customer's orders from the table.
Serializar(p) ==
    /\ res[p] # Idle
    /\ res[p].http # None
    /\ res[p].pc = "done"
    /\ H(res[p]).pending # <<>>
    /\ LET h == H(res[p])
       IN res' = [res EXCEPT ![p] =
                    [Logged(res[p], <<"ordenes.read">>)
                       EXCEPT !.http = Some([h EXCEPT
                          !.pending = Tail(h.pending),
                          !.sent = Append(h.sent,
                                          ClienteResponse(DB, Head(h.pending))),
                          !.client = IF Tail(h.pending) = <<>>
                                     THEN Client(h.status) ELSE 0])]]
    /\ UNCHANGED <<clientes, ordenes, users, now, hits, steps, issued>>

\* A minute passes; the storage of the Limiters drops the counters that have
\* expired.
Minuto ==
    /\ now < T0 + MaxMinutos
    /\ now' = now + 1
    /\ hits' = [ k \in { j \in DOMAIN hits : now + 1 < hits[j].expires } |->
                  hits[k] ]
    /\ UNCHANGED <<clientes, ordenes, users, steps, issued, res>>

\* The customers the order subsystem stores an order of while the requests
\* are served: the seeded customer the requests address.
HttpOrdenes == { int(IdSembrado) }

\* The order subsystem stores an order on a connection of its own.
InsertOrdenHttp ==
    /\ Cardinality(ordenes) < MaxOrdenes
    /\ \E c \in clientes :
         /\ c.id \in HttpOrdenes
         /\ ordenes' = ordenes \cup
              { [consecutivo |-> Cardinality(ordenes) + 1, tipo |-> <<"A">>,
                 id_cliente |-> c.id] }
    /\ UNCHANGED <<clientes, users, now, hits, steps, issued, res>>

InitHttp ==
    /\ \E salt \in HttpSalts :
         LET db == startup_event([clientes |-> {}, ordenes |-> {}, users |-> {}],
                                 salt)
         IN /\ users = db.users
            /\ clientes = db.clientes
            /\ ordenes = db.ordenes
    /\ now = T0
    /\ hits = <<>>
    /\ steps = 0
    /\ issued = {}
    /\ res = [p \in Procs |-> Idle]

\* The sessions are interchangeable: a request is given to session "b" only
\* while session "a" is busy.
Libre(p) == p = "a" \/ res["a"] # Idle

NextHttp ==
    \/ \E p \in Procs :
          \/ Libre(p) /\ PostClientes(p)
          \/ Libre(p) /\ GetClientesTodos(p)
          \/ Libre(p) /\ GetCliente(p)
          \/ Libre(p) /\ PutCliente(p)
          \/ Libre(p) /\ DeleteCliente(p)
          \/ Libre(p) /\ GetClientes(p)
          \/ Libre(p) /\ GetMe(p)
          \/ Libre(p) /\ PostRegister(p)
          \/ Libre(p) /\ PostLogin(p)
          \/ Libre(p) /\ GetHealth(p)
          \/ Autorizar(p) \/ Limitar(p) \/ Ejecutar(p) \/ Responder(p)
          \/ Serializar(p)
          \/ Return(p)
    \/ Minuto
    \/ InsertOrdenHttp

SpecHttp == InitHttp /\ [][NextHttp]_vars

(***************************************************************************)
(* Properties of the customer repository (checked under Spec: calls made   *)
(* one after the other).                                                   *)
(***************************************************************************)
\* Session p has a finished call of op.
\* Some event of the set occurs in the log.
InLog(log, events) == \E i \in 1 .. Len(log) : log[i] \in events

RepositoryEvents == { "clientes.read", "clientes.write", "ordenes.read" }

Hecha(p, op) == res[p].op = op /\ res[p].pc = "done"

\* The customer with this id among the rows t (the call's target).
Target(t, i) == The(get_cliente_by_id(t, i))
Exists(t, i) == \E c \in t : c.id = i

\* C1: in every state reachable by sequential create, update and delete calls,
\* no two stored customers have the same id and no two have the same email.
C1_IdAndEmailUnique ==
    \A a, b \in clientes : (a.id = b.id \/ a.email = b.email) => a = b

\* Two customers are stored and a call that would have duplicated a key has
\* just been turned down.
C1_Witness ==
    /\ Cardinality(clientes) = 2
    /\ \E p \in Procs :
         \/ Hecha(p, "create_cliente") /\ res[p].ret = None
         \/ Hecha(p, "update_cliente") /\ res[p].exc = "ValueError"

\* C2: create returns null whenever a stored customer has the same id OR the
\* same email, and then the stored customers are unchanged; when neither
\* collides it stores a record with exactly the supplied fields and returns it.
C2_CreateRejectsEitherCollision ==
    \A p \in Procs :
      Hecha(p, "create_cliente") =>
        LET r == res[p]
            d == r.arg.data
            pre == r.pre.clientes
            collides == \E c \in pre : c.id = d.id \/ c.email = d.email
        IN /\ r.exc = ""
           /\ collides => r.ret = None /\ clientes = pre
           /\ ~collides =>
                /\ r.ret # None
                /\ DOMAIN The(r.ret) = DOMAIN d
                /\ \A f \in DOMAIN d : The(r.ret)[f] = d[f]
                /\ clientes = pre \cup r.ret
                /\ r.ret \cap pre = {}

\* A create was turned down on the email alone: no stored customer has its id.
C2_Witness ==
    \E p \in Procs :
      /\ Hecha(p, "create_cliente")
      /\ res[p].ret = None
      /\ ~Exists(res[p].pre.clientes, res[p].arg.data.id)
      /\ \E c \in res[p].pre.clientes : c.email = res[p].arg.data.email

\* C3: delete has exactly three outcomes: not found (None) when no customer has
\* the id, blocked (False) when the customer has one or more orders, deleted
\* (True) otherwise.  A customer with an order is never removed and its orders
\* stay; after a deletion get_by_id finds nothing and every other customer is
\* unchanged.
C3_DeleteThreeOutcomes ==
    \A p \in Procs :
      Hecha(p, "delete_cliente") =>
        LET r == res[p]
            i == r.arg.cliente_id
            pre == r.pre.clientes
            has == {o \in r.pre.ordenes : o.id_cliente = i}
        IN /\ r.exc = ""
           /\ r.ret \in {None, Some(FALSE), Some(TRUE)}
           /\ r.ret = None <=> ~Exists(pre, i)
           /\ r.ret = Some(FALSE) <=> (Exists(pre, i) /\ has # {})
           /\ r.ret = Some(TRUE) <=> (Exists(pre, i) /\ has = {})
           /\ ordenes = r.pre.ordenes
           /\ r.ret # Some(TRUE) => clientes = pre
           /\ r.ret = Some(TRUE) =>
                /\ get_cliente_by_id(clientes, i) = None
                /\ clientes = {c \in pre : c.id # i}

\* A delete was blocked: the customer and its order are still stored.
C3_Witness ==
    \E p \in Procs :
      /\ Hecha(p, "delete_cliente")
      /\ res[p].ret = Some(FALSE)
      /\ Exists(clientes, res[p].arg.cliente_id)
      /\ \E o \in ordenes : o.id_cliente = res[p].arg.cliente_id

\* C4: an update that changes the email to one a different customer holds fails
\* with ValueError (not the null of not-found) and leaves every stored customer
\* unchanged, the target's other supplied fields included; an update that sets
\* the email to the customer's own current value meets no conflict and
\* succeeds: it returns the stored record, which carries that email.
C4_EmailConflictOnUpdate ==
    \A p \in Procs :
      (/\ Hecha(p, "update_cliente")
       /\ Exists(res[p].pre.clientes, res[p].arg.cliente_id)
       /\ "email" \in DOMAIN res[p].arg.data
       /\ res[p].arg.data["email"] # None) =>
        LET r == res[p]
            i == r.arg.cliente_id
            pre == r.pre.clientes
            t == Target(pre, i)
            e == The(r.arg.data["email"])
        IN /\ (e # t.email /\ \E c \in pre : c.email = e /\ c.id # i) =>
                /\ r.exc = "ValueError"
                /\ clientes = pre
           /\ e = t.email =>
                /\ r.exc = ""
                /\ r.ret = get_cliente_by_id(clientes, i)
                /\ r.ret # None
                /\ The(r.ret).email = e

\* C5: an update of an existing customer changes only the supplied fields: with
\* no field it returns the existing record and the store is unchanged;
\* otherwise every unsupplied field of the target keeps its value, the target's
\* id never changes, and all other customers are unchanged.  An update of an
\* absent id returns null and changes nothing.
C5_UpdateFrame ==
    \A p \in Procs :
      Hecha(p, "update_cliente") =>
        LET r == res[p]
            i == r.arg.cliente_id
            pre == r.pre.clientes
            data == r.arg.data
        IN /\ ~Exists(pre, i) =>
                r.ret = None /\ r.exc = "" /\ clientes = pre
           /\ Exists(pre, i) =>
                LET t == Target(pre, i)
                IN /\ DOMAIN data = {} =>
                        r.ret = Some(t) /\ r.exc = "" /\ clientes = pre
                   /\ Exists(clientes, i)
                   /\ clientes \ {Target(clientes, i)} = pre \ {t}
                   /\ \A f \in DOMAIN t :
                        f \notin DOMAIN data => Target(clientes, i)[f] = t[f]
                   /\ r.exc = "" =>
                        /\ r.ret = Some(Target(clientes, i))
                        /\ \A f \in DOMAIN data :
                             Target(clientes, i)[f] =
                                IF f = "direccion" THEN data[f]
                                ELSE The(data[f])

\* An update changed one customer's nombre while another customer is stored.
C5_Witness ==
    \E p \in Procs :
      /\ Hecha(p, "update_cliente")
      /\ res[p].exc = ""
      /\ Cardinality(res[p].pre.clientes) = 2
      /\ DOMAIN res[p].arg.data = {"nombre"}
      /\ clientes # res[p].pre.clientes

\* An update with no field returned the stored record.
C5_WitnessEmpty ==
    \E p \in Procs :
      /\ Hecha(p, "update_cliente")
      /\ DOMAIN res[p].arg.data = {}
      /\ res[p].ret # None

(***************************************************************************)
(* Properties of the search (checked under SpecSearch).                    *)
(***************************************************************************)
\* q occurs in s as a literal substring, letter case aside.
ContainsLiteral(s, q) ==
    \E i \in 0 .. (Len(s) - Len(q)) : SubSeq(lower(s), i + 1, i + Len(q)) = lower(q)

\* C9: total_count is the number of stored customers whose nombre, apellido or
\* email contains the query as a case-insensitive literal substring (all of
\* them when the query is empty or absent), whatever the page and limit.
C9_TotalCountsLiteralMatches ==
    \A p \in Procs :
       Hecha(p, "search_and_sort_clientes") =>
          res[p].ret.total = Cardinality(
              { c \in clientes :
                  \/ res[p].arg.q = None
                  \/ The(res[p].arg.q) = <<>>
                  \/ ContainsLiteral(c.nombre, The(res[p].arg.q))
                  \/ ContainsLiteral(c.apellido, The(res[p].arg.q))
                  \/ ContainsLiteral(c.email, The(res[p].arg.q)) })

\* The key of a row is smaller / not larger than that of another in the order
\* asked for.
Before(a, b, sort, order) ==
    IF order = "desc" THEN StrLess(SortKey(b, sort), SortKey(a, sort))
    ELSE StrLess(SortKey(a, sort), SortKey(b, sort))
NotAfter(a, b, sort, order) == ~Before(b, a, sort, order)

\* C10: with page >= 1 and limit in range, the search returns the records at
\* positions offset .. offset+limit-1, offset = (page-1)*limit, of the matching
\* customers sorted on the chosen key in the chosen direction: the page has
\* exactly min(limit, max(0, total_count - offset)) records, is ordered by the
\* key, and every record of an earlier page sorts no later than every record
\* of a later page.
C10_PageIsSliceOfSortedMatches ==
    \A p \in Procs :
       Hecha(p, "search_and_sort_clientes") =>
          LET a == res[p].arg
              results == res[p].ret.results
              total == res[p].ret.total
              matching == { c \in clientes : search_filter(c, a.q) }
              offset == (a.page - 1) * a.limit
              rest == IF total - offset > 0 THEN total - offset ELSE 0
              n == Len(results)
          IN /\ a.offset = offset
             /\ total = Cardinality(matching)
             /\ n = IF a.limit < rest THEN a.limit ELSE rest
             /\ \A i \in 1 .. n : results[i] \in matching
             /\ \A i, j \in 1 .. n :
                  i < j => /\ results[i] # results[j]
                           /\ NotAfter(results[i], results[j], a.sort, a.order)
             \* results[i] stands at position offset + i of the sorted matches
             /\ \A i \in 1 .. n :
                  /\ Cardinality({ m \in matching :
                        Before(m, results[i], a.sort, a.order) })
                       <= offset + i - 1
                  /\ Cardinality({ m \in matching :
                        NotAfter(m, results[i], a.sort, a.order) })
                       >= offset + i
             /\ \A e \in a.earlier :
                  \A i \in 1 .. Len(e.results), j \in 1 .. n :
                      IF e.page < a.page
                      THEN NotAfter(e.results[i], results[j], a.sort, a.order)
                      ELSE NotAfter(results[j], e.results[i], a.sort, a.order)

\* limit = 1, page = 2 over three matching records with distinct keys returned
\* exactly the second, after page 1 had returned the first.
C10_Witness ==
    \E p \in Procs :
       /\ Hecha(p, "search_and_sort_clientes")
       /\ res[p].arg.limit = 1 /\ res[p].arg.page = 2 /\ res[p].ret.total = 3
       /\ Len(res[p].ret.results) = 1
       /\ LET matching == { c \in clientes : search_filter(c, res[p].arg.q) }
              r == res[p].ret.results[1]
          IN /\ Cardinality({ m \in matching :
                   Before(m, r, res[p].arg.sort, res[p].arg.order) }) = 1
             /\ Cardinality({ m \in matching :
                   Before(r, m, res[p].arg.sort, res[p].arg.order) }) = 1
       /\ \E e \in res[p].arg.earlier : e.page = 1 /\ Len(e.results) = 1

(***************************************************************************)
(* Properties of the token service (checked under SpecTok).                *)
(***************************************************************************)
\* C7: a token issued for an identity resolves to that identity at any time
\* before its expiry (ACCESS_TOKEN_EXPIRE_MINUTES after issuance) and to null
\* at any time after it; a token never resolves to an identity other than the
\* one it was issued for (a token that was not issued resolves to null).
C7_TokenResolvesUntilExpiry ==
    \A p \in Procs :
       Hecha(p, "decode_token") =>
          LET a == res[p].arg
              ret == res[p].ret
          IN /\ \A i \in issued :
                  a.token = i.token =>
                     /\ a.now < i.at + ACCESS_TOKEN_EXPIRE_MINUTES => ret = Some(i.sub)
                     /\ a.now > i.at + ACCESS_TOKEN_EXPIRE_MINUTES => ret = None
                     /\ ret \subseteq {i.sub}
             /\ (\A i \in issued : a.token # i.token) => ret = None

\* An issued token is refused a minute after its expiry.
C7_Witness ==
    \E p \in Procs :
       /\ Hecha(p, "decode_token")
       /\ res[p].ret = None
       /\ \E i \in issued :
            /\ res[p].arg.token = i.token
            /\ res[p].arg.now = i.at + ACCESS_TOKEN_EXPIRE_MINUTES + 1

(***************************************************************************)
(* Properties of the credential store (checked under SpecUsers).           *)
(***************************************************************************)
\* What authenticate_user returns on the users us.
Authenticated(us, username, password) ==
    LET db == [clientes |-> {}, ordenes |-> {}, users |-> us]
    IN authenticate_user(db, Call("authenticate_user", "user",
                                  [username |-> username, password |-> password],
                                  db, None)).c.ret

\* C11: after any sequence of create_user calls no two stored users share a
\* username; create_user with a username that already exists returns null and
\* leaves the stored users unchanged, so every password authenticates exactly
\* as it did before the call, while the password of a successful create_user
\* authenticates as the user it stored.
C11_UsernamesUnique ==
    /\ \A u, v \in users : u.username = v.username => u = v
    /\ \A p \in Procs :
          Hecha(p, "create_user") =>
             LET a == res[p].arg
                 pre == res[p].pre.users
             IN IF \E u \in pre : u.username = a.username
                THEN /\ res[p].ret = None
                     /\ res[p].exc = ""
                     /\ users = pre
                     /\ \A w \in Passwords :
                           Authenticated(users, a.username, w)
                              = Authenticated(pre, a.username, w)
                ELSE /\ res[p].ret # None
                     /\ users = pre \cup res[p].ret
                     /\ The(res[p].ret).username = a.username
                     /\ Authenticated(users, a.username, a.password) = res[p].ret

\* A second create_user for a stored username came with another password and
\* was refused; the stored user still authenticates with the first password
\* and not with the second.
C11_Witness ==
    \E p \in Procs :
       /\ Hecha(p, "create_user")
       /\ res[p].ret = None
       /\ \E u \in users, w \in Passwords :
            /\ u.username = res[p].arg.username
            /\ w # res[p].arg.password
            /\ Authenticated(users, u.username, w) = Some(u)
            /\ Authenticated(users, u.username, res[p].arg.password) = None

\* C12: authenticate returns null both when the username is unknown and when
\* the password does not match, and performs the hash verification primitive
\* on every call, whether or not the username exists.
C12_VerifyOnEveryAuthenticate ==
    \A p \in Procs :
       Hecha(p, "authenticate_user") =>
          LET a == res[p].arg
              pre == res[p].pre.users
          IN /\ (\A u \in pre : u.username # a.username) => res[p].ret = None
             /\ (\E u \in pre :
                    /\ u.username = a.username
                    /\ ~verify_password(a.password, u.hashed_password))
                   => res[p].ret = None
             /\ InLog(res[p].log, {"verify_password"})

(***************************************************************************)
(* Properties of the request pipeline (checked under SpecHttp).            *)
(***************************************************************************)
\* Session p holds a request, and the request and log it holds.
Peticion(p) == res[p] # Idle /\ res[p].http # None
Req(p) == The(res[p].http)

\* The step is one of session p's request.
StepOf(p) ==
    /\ res'[p] # Idle
    /\ res'[p].http # None
    /\ \/ res[p] = Idle
       \/ res'[p].pc # res[p].pc
       \/ res'[p].log # res[p].log
       \/ res'[p].http # res[p].http

\* C6: a request on a protected route that carries no token, or a token that
\* decode_token refuses, ends 401 with no customer repository operation run,
\* and no step of it changes the customer store; only a request whose token
\* verified reaches the handler, with the token's identity as its user_id.
C6_UnverifiedNeverReachesHandler ==
    /\ [](\A p \in Procs :
            (Peticion(p) /\ Req(p).endpoint \in ProtectedEndpoints) =>
               LET verified == /\ Req(p).token # None
                               /\ decode_token(The(Req(p).token), Req(p).at) # None
               IN /\ ~verified =>
                       /\ Req(p).status = 401
                       /\ Req(p).client = 401
                       /\ res[p].pc = "done"
                       /\ ~InLog(res[p].log,
                                 RepositoryEvents \cup {"handler", "rate_check"})
                       /\ Req(p).user_id = None
                  /\ InLog(res[p].log, RepositoryEvents \cup {"handler"}) =>
                       /\ verified
                       /\ Req(p).user_id
                             = decode_token(The(Req(p).token), Req(p).at)
                       /\ Req(p).status # 401)
    /\ [][\A p \in Procs :
            (StepOf(p) /\ The(res'[p].http).endpoint \in ProtectedEndpoints
                       /\ The(res'[p].http).status = 401) =>
               UNCHANGED <<clientes, ordenes>>]_vars

\* A POST /clientes that would have stored a new customer was refused: its
\* token's sub had been edited, so the signature did not verify.
C6_Witness ==
    \E p \in Procs :
       /\ Peticion(p)
       /\ Req(p).endpoint = "crear_cliente"
       /\ Req(p).status = 401
       /\ Req(p).token # None
       /\ The(Req(p).token).claims.exp >= Req(p).at
       /\ The(Req(p).token).claims.sub = Admin
       /\ The(Req(p).token).sig # Sign(SECRET_KEY, The(Req(p).token).claims)
       /\ res[p].arg.data.id = MIN_ID
       /\ ~Exists(clientes, MIN_ID)

\* C8 as claimed: the rate-limit check comes first on every request, and a
\* request over its budget fails before the access-control check and before
\* any access to the store or the token service.
C8_RateCheckFirst ==
    \A p \in Procs :
       Peticion(p) =>
          /\ InLog(res[p].log, {"rate_check"}) => Head(res[p].log) = "rate_check"
          /\ Req(p).status = 429 => res[p].log = <<"rate_check">>

(***************************************************************************)
(* Properties of concurrent creates (checked under SpecRace).              *)
(***************************************************************************)
\* Two bodies carry the same id or the same email.
Chocan(d, e) == d.id = e.id \/ d.email = e.email

\* Session p's create has returned or raised after its look-up found nothing.
PasoElControl(p) ==
    /\ Hecha(p, "create_cliente")
    /\ res[p].found = None
    /\ InLog(res[p].log, {"clientes.write"})

\* C13: when two create requests carrying the same id or the same email both
\* pass the look-up before either inserts, the table still never holds two
\* customers with the same id or the same email; exactly one of the two
\* returns a stored record, and the other ends in IntegrityError, answered as
\* a server fault (500) and not as the null / 409 of a detected duplicate.
C13_RaceKeepsUniqueness ==
    /\ \A c, d \in clientes : (c.id = d.id \/ c.email = d.email) => c = d
    /\ \A p, q \in Procs :
          (/\ p # q
           /\ PasoElControl(p) /\ PasoElControl(q)
           /\ Chocan(res[p].arg.data, res[q].arg.data)) =>
             /\ (res[p].ret # None) # (res[q].ret # None)
             /\ res[p].ret # None =>
                  /\ res[p].ret = Some(Fila(res[p].arg.data))
                  /\ crear_cliente(res[p]).status = 201
                  /\ res[q].exc = "IntegrityError"
                  /\ res[q].ret = None
                  /\ crear_cliente(res[q]).status = 500
                  /\ Client(crear_cliente(res[q]).status) = 500
                  /\ clientes = res[p].pre.clientes \cup res[p].ret

\* Two requests with different ids and the same email both found nothing;
\* one stored its customer, the other was answered 500.
C13_Witness ==
    \E p, q \in Procs :
       /\ PasoElControl(p) /\ PasoElControl(q)
       /\ res[p].arg.data.id # res[q].arg.data.id
       /\ res[p].arg.data.email = res[q].arg.data.email
       /\ crear_cliente(res[p]).status = 201
       /\ crear_cliente(res[q]).status = 500
       /\ Fila(res[p].arg.data) \in clientes
       /\ Fila(res[q].arg.data) \notin clientes

=============================================================================
